---- MODULE Spec2Model ----
(***************************************************************************)
(* Parallel raster chunk processing (raster_chunk_processing.py).          *)
(*                                                                         *)
(* ParallelRCP splits a raster into chunks, a pool of worker processes     *)
(* runs ProcessSuperArray on each chunk: read a padded window under the    *)
(* shared lock, paste it into a NoData-filled super array, run the         *)
(* processing method, strip the overlap, restore NoData, and write the     *)
(* chunk to the target under the shared lock.                              *)
(***************************************************************************)
EXTENDS Integers, Sequences, FiniteSets, TLC

\* ---------------------------------------------------------------- bounds
MaxDim == 6        \* rows, cols of the source raster are in 1..MaxDim
MaxChunk == 3      \* chunk_size is in 1..MaxChunk
MaxOverlap == 1    \* overlap is in 0..MaxOverlap (f2 = 2 * overlap)
MaxThreads == 2    \* num_threads is in 1..MaxThreads
MaxTiles == 9      \* rasters that break into more chunks are left out
MaxPoolTiles == 4  \* ... and with more than one process, more than this many
MaxFilter == 1     \* options["filter_size"] is in 0..MaxFilter
MdMaxCells == 4    \* arrays passed to mdenoise have at most this many cells

VARIABLES
    cfg,         \* the arguments of ParallelRCP and the files it is given
    state,       \* ParallelRCP: NotStarted, Validated, SourceRead,
                 \* TargetCreated, Running, Completed, Failed
    error,       \* the exception ParallelRCP raised, "none" so far
    io,          \* raster I/O of ParallelRCP: source opened, targets created
    source,      \* the cells of the file at in_dem_path
    tfile,       \* the file at out_dem_path: metadata, handle open or closed
    iterables,   \* the list of Chunk objects handed to pool.map
    next,        \* index into iterables of the next chunk a worker takes
    lock,        \* mp.Lock: 0 when free, else the worker holding it
    workers,     \* each pool process: its position in ProcessSuperArray
    target,      \* the cells of the target raster
    writeCount,  \* for each target cell, the WriteArray calls that covered it
    success,     \* MapResult._success: no task has raised so far
    printed,     \* the progress messages printed so far
    done,        \* the chunks (indices of iterables) whose task returned
    failed,      \* the chunks whose task raised
    events,      \* per chunk, how often it was read, processed and written
    md           \* one call of mdenoise: its position and its temporary files

vars == <<cfg, state, error, io, source, tfile, iterables, next, lock, workers,
          target, writeCount, success, printed, done, failed, events, md>>

\* ------------------------------------------------------------ the source
\* NoData value of the source band (s_band.GetNoDataValue()).
s_nodata == 0 - 9999

\* Source rasters: every cell holds a value of its own, except the NoData
\* holes of the "holes" raster.
SourceKinds == {"full", "holes"}

SourceCell(c, y, x) ==
    IF c.src = "holes" /\ (x + 2 * y) % 3 = 1
    THEN s_nodata
    ELSE y * c.cols + x + 1

\* The processing methods are black boxes that keep the shape of the array.
\* Two stand in for them: "fill" returns a finite value that ignores its
\* input (also where the input is NoData), "shift" returns the input plus one.
OpKinds == {"fill", "shift"}

\* ------------------------------------------------------- numpy arrays
Min(a, b) == IF a < b THEN a ELSE b
Max(a, b) == IF a > b THEN a ELSE b

\* A 2-d array: shape (h, w) and its cells d[<<row, col>>].
Cells(h, w) == (0 .. h - 1) \X (0 .. w - 1)

\* np.full((h, w), v)
NpFull(h, w, v) == [h |-> h, w |-> w, d |-> [p \in Cells(h, w) |-> v]]

NoArray == NpFull(0, 0, s_nodata)

\* Python's normalisation of a slice bound i for a dimension of length n.
PyIndex(i, n) == IF i < 0 THEN Max(i + n, 0) ELSE Min(i, n)

\* Length of the slice [start:stop] of a dimension of length n.
SliceLen(start, stop, n) == Max(PyIndex(stop, n) - PyIndex(start, n), 0)

\* a[ys:ye, xs:xe]
Slice2(a, ys, ye, xs, xe) ==
    LET h == SliceLen(ys, ye, a.h)
        w == SliceLen(xs, xe, a.w)
        y0 == PyIndex(ys, a.h)
        x0 == PyIndex(xs, a.w)
    IN  [h |-> h, w |-> w,
         d |-> [p \in Cells(h, w) |-> a.d[<<y0 + p[1], x0 + p[2]>>]]]

\* ------------------------------------------------------- partitioning
\* list(range(start, stop, step))
RECURSIVE Range(_, _, _)
Range(start, stop, step) ==
    IF start >= stop THEN <<>> ELSE <<start>> \o Range(start + step, stop, step)

\* row_splits / col_splits: breaks every chunk_size pixels, the dimension last
Splits(dim, chunk_size) == Append(Range(0, dim, chunk_size), dim)

\* The Chunk objects of the double loop over row_splits and col_splits, in
\* the order they are appended to iterables.
MakeChunks(rows, cols, chunk_size) ==
    LET row_splits == Splits(rows, chunk_size)
        col_splits == Splits(cols, chunk_size)
        nr == Len(row_splits) - 1
        nc == Len(col_splits) - 1
    IN  [k \in 1 .. nr * nc |->
            LET i == (k - 1) \div nc
                j == (k - 1) % nc
            IN  [tile |-> <<i, j>>,
                 progress |-> k,
                 x_start |-> col_splits[j + 1],
                 y_start |-> row_splits[i + 1],
                 x_end |-> col_splits[j + 2],
                 y_end |-> row_splits[i + 2]]]

\* The chunk list ParallelRCP builds: only when the raster exceeds chunk_size
\* in both directions; the else path is "pass".
Iterables(c) ==
    IF c.rows > c.chunk_size /\ c.cols > c.chunk_size
    THEN MakeChunks(c.rows, c.cols, c.chunk_size)
    ELSE <<>>

\* ------------------------------------------------- methods and options
\* The method names of the option checks of ParallelRCP ...
ValidatedMethods ==
    {"blur_gauss", "mdenoise", "clahe", "TPI", "blur_mean", "hillshade", "skymodel"}

\* No method requires any option.
RequiredOptsNone(method) == {}

\* ... and the options each of them requires.
RequiredOpts(method) ==
    CASE method = "blur_gauss" -> {"filter_size"}
      [] method = "mdenoise" -> {"t", "n", "v"}
      [] method = "clahe" -> {"filter_size", "clip_limit"}
      [] method = "TPI" -> {"filter_size"}
      [] method = "blur_mean" -> {"filter_size"}
      [] method = "hillshade" -> {"alt", "az"}
      [] method = "skymodel" -> {"lum_file"}
      [] OTHER -> {}

\* The exception of the method name and option checks, "none" if they pass.
ValidationError(c) ==
    IF c.method \notin ValidatedMethods THEN "NotImplementedError"
    ELSE IF \E opt \in RequiredOpts(c.method) : opt \notin c.options THEN "ValueError"
    ELSE "none"

\* The methods whose option check also checks overlap against filter_size.
FilterMethods == {"blur_gauss", "clahe", "TPI", "blur_mean"}

\* overlap left as the caller passed it.
OverlapAsGiven(c) == c.overlap

\* overlap as ParallelRCP uses it after the checks.
Overlap(c) ==
    IF c.method \in FilterMethods /\ c.overlap < 2 * c.filter_size
    THEN 2 * c.filter_size
    ELSE c.overlap

\* A dispatch whose hillshade branch reads the options under other names.
DispatchReadsRenamed(method) ==
    CASE method = "blur_gauss" -> {"filter_size"}
      [] method = "mdenoise" -> {"t", "n", "v"}
      [] method = "clahe" -> {"filter_size", "clip_limit"}
      [] method = "TPI" -> {"filter_size"}
      [] method = "blur_mean" -> {"filter_size"}
      [] method = "hillshade" -> {"azimuth", "altitude"}
      [] method = "skymodel" -> {"lum_lines"}
      [] OTHER -> {}

\* The method names of the dispatch of ProcessSuperArray ...
DispatchedMethods ==
    {"blur_gauss", "mdenoise", "clahe", "TPI", "blur_mean", "hillshade", "skymodel"}

\* ... and the options the dispatch reads for each.
DispatchReads(method) ==
    CASE method = "blur_gauss" -> {"filter_size"}
      [] method = "mdenoise" -> {"t", "n", "v"}
      [] method = "clahe" -> {"filter_size", "clip_limit"}
      [] method = "TPI" -> {"filter_size"}
      [] method = "blur_mean" -> {"filter_size"}
      [] method = "hillshade" -> {"az", "alt"}
      [] method = "skymodel" -> {"lum_lines"}
      [] OTHER -> {}

\* chunk.options: the caller's dictionary, with lum_lines added for skymodel.
ChunkOptions(c) ==
    IF c.method = "skymodel" THEN c.options \cup {"lum_lines"} ELSE c.options

\* The exception of the dispatch, "none" if the method runs.
DispatchError(c) ==
    IF c.method \notin DispatchedMethods THEN "NotImplementedError"
    ELSE IF \E opt \in DispatchReads(c.method) : opt \notin ChunkOptions(c) THEN "KeyError"
    ELSE "none"

\* f2 = 2 * overlap
F2(c) == 2 * Overlap(c)

\* ------------------------------------------------- ProcessSuperArray
\* EdgeLogic with the over test written >= instead of >.
EdgeLogicGe(off, size, f2, dim) ==
    IF off < 0
    THEN [read_off |-> 0, read_size |-> size - f2,
          sa_start |-> f2, sa_end |-> size]
    ELSE IF off + size >= dim
    THEN [read_off |-> off, read_size |-> size - f2,
          sa_start |-> 0, sa_end |-> (0 - 1) * f2]
    ELSE [read_off |-> off, read_size |-> size,
          sa_start |-> 0, sa_end |-> size]

\* Edge logic of one axis: read offset and size for ReadAsArray, and the slice
\* of super_array the read array is copied into.
EdgeLogic(off, size, f2, dim) ==
    IF off < 0
    THEN [read_off |-> 0, read_size |-> size - f2,
          sa_start |-> f2, sa_end |-> size]
    ELSE IF off + size > dim
    THEN [read_off |-> off, read_size |-> size - f2,
          sa_start |-> 0, sa_end |-> (0 - 1) * f2]
    ELSE [read_off |-> off, read_size |-> size,
          sa_start |-> 0, sa_end |-> size]

\* Super array calculations for chunk ch of run c.
SuperArrayCalc(c, ch) ==
    LET f2 == F2(c)
        x_size == ch.x_end - ch.x_start + 2 * f2
        y_size == ch.y_end - ch.y_start + 2 * f2
        x_off == ch.x_start - f2
        y_off == ch.y_start - f2
        ex == EdgeLogic(x_off, x_size, f2, c.cols)
        ey == EdgeLogic(y_off, y_size, f2, c.rows)
    IN  [x_size |-> x_size, y_size |-> y_size, x_off |-> x_off, y_off |-> y_off,
         read_x_off |-> ex.read_off, read_x_size |-> ex.read_size,
         read_y_off |-> ey.read_off, read_y_size |-> ey.read_size,
         sa_x_start |-> ex.sa_start, sa_x_end |-> ex.sa_end,
         sa_y_start |-> ey.sa_start, sa_y_end |-> ey.sa_end]

\* GDAL refuses a window that is not inside the raster ("Access window out of
\* range"); with gdal.UseExceptions() the read raises.
ReadWindowOk(c, xoff, yoff, xsize, ysize) ==
    /\ xoff >= 0 /\ yoff >= 0
    /\ xsize >= 1 /\ ysize >= 1
    /\ xoff + xsize <= c.cols
    /\ yoff + ysize <= c.rows

\* s_fh.ReadAsArray(xoff, yoff, xsize, ysize), an array of form [rows, cols]
ReadAsArray(c, xoff, yoff, xsize, ysize) ==
    [h |-> ysize, w |-> xsize,
     d |-> [p \in Cells(ysize, xsize) |-> SourceCell(c, yoff + p[1], xoff + p[2])]]

\* NewSuperArray as np.zeros((y_size, x_size)).
NewSuperArrayZeros(g) == NpFull(g.y_size, g.x_size, 0)

\* np.full((y_size, x_size), s_nodata)
NewSuperArray(g) == NpFull(g.y_size, g.x_size, s_nodata)

\* super_array[sa_y_start:sa_y_end, sa_x_start:sa_x_end] = read_array is a
\* broadcast error unless the slice has the shape of read_array.
PasteOk(sa, g, read_array) ==
    /\ SliceLen(g.sa_y_start, g.sa_y_end, sa.h) = read_array.h
    /\ SliceLen(g.sa_x_start, g.sa_x_end, sa.w) = read_array.w

Paste(sa, g, read_array) ==
    LET y0 == PyIndex(g.sa_y_start, sa.h)
        x0 == PyIndex(g.sa_x_start, sa.w)
    IN  [sa EXCEPT !.d =
            [p \in Cells(sa.h, sa.w) |->
                IF /\ y0 <= p[1] /\ p[1] < y0 + read_array.h
                   /\ x0 <= p[2] /\ p[2] < x0 + read_array.w
                THEN read_array.d[<<p[1] - y0, p[2] - x0>>]
                ELSE sa.d[p]]]

\* The method dispatch: new_data has the shape of super_array.
Operation(op, sa) ==
    [sa EXCEPT !.d =
        [p \in Cells(sa.h, sa.w) |->
            IF op = "fill" THEN p[1] + p[2] ELSE sa.d[p] + 1]]

\* new_data[f2:-1*f2, f2:-1*f2] and super_array[f2:-f2, f2:-f2]
StripOverlap(a, f2) == Slice2(a, f2, (0 - 1) * f2, f2, (0 - 1) * f2)

\* PutMask left out: the method's values are written as they are.
PutMaskSkipped(temp_array, read_sub_array) == temp_array

\* np.putmask(temp_array, read_sub_array == s_nodata, s_nodata)
PutMask(temp_array, read_sub_array) ==
    [temp_array EXCEPT !.d =
        [p \in Cells(temp_array.h, temp_array.w) |->
            IF read_sub_array.d[p] = s_nodata THEN s_nodata ELSE temp_array.d[p]]]

\* temp_array as it is handed to WriteArray.
TempArray(new_data, super_array, f2) ==
    PutMask(StripOverlap(new_data, f2), StripOverlap(super_array, f2))

\* WriteOffset with the read offsets of the super array.
WriteOffsetRead(ch, g) == [x |-> g.read_x_off, y |-> g.read_y_off]

\* Offset at which the chunk is written: its original position in the file.
WriteOffset(ch, g) == [x |-> ch.x_start, y |-> ch.y_start]

\* t_band.WriteArray(array, xoff, yoff) raises when the array does not fit.
WriteOk(c, array, xoff, yoff) ==
    /\ array.w + xoff <= c.cols
    /\ array.h + yoff <= c.rows

\* The target cells a write of array at (xoff, yoff) covers.
WriteCells(array, xoff, yoff) ==
    {<<yoff + p[1], xoff + p[2]>> : p \in Cells(array.h, array.w)}

WriteArray(tgt, array, xoff, yoff) ==
    [q \in DOMAIN tgt |->
        IF q \in WriteCells(array, xoff, yoff)
        THEN array.d[<<q[1] - yoff, q[2] - xoff>>]
        ELSE tgt[q]]

\* ------------------------------------------------------------ the lock
\* LockFree for a lock every process has a copy of its own.
LockFreeAlways(l) == TRUE

\* "with lock:" enters only when no process holds the lock ...
LockFree(l) == l = 0

\* Released for a lock that is acquired and never given up.
StillHeld(l) == l

\* ... and gives it up when the block is left, normally or by an exception.
Released(l) == 0

\* The lock kept when the block is left by an exception.
HeldOnRaise(l) == l

\* "with lock:" releases the lock as well when its body raises.
ReleasedOnRaise(l) == 0

\* ---------------------------------------------------------- the state
\* Method names a caller may pass: the seven methods and the name of the
\* superseded RCProcessing's blur.
MethodNames == ValidatedMethods \cup {"fftconvolve"}

OptionKeys == {"filter_size", "clip_limit", "t", "n", "v", "alt", "az", "lum_file"}

\* Option dictionaries (their keys): all options, all but one, none.
OptionSets == {OptionKeys} \cup {OptionKeys \ {k} : k \in OptionKeys} \cup {{}}

\* out_dem_path names no file yet ("new"), an existing file ("exists"), or
\* is in_dem_path itself ("source").
OutKinds == {"new", "exists", "source"}

\* Rasters of every shape, run with a method whose options are all given, on
\* a source with a NoData value, to a path that does not exist yet.
GeometryConfigs ==
    {c \in [rows : 1 .. MaxDim, cols : 1 .. MaxDim, chunk_size : 1 .. MaxChunk,
            overlap : 0 .. MaxOverlap, num_threads : 1 .. MaxThreads,
            op : OpKinds, src : SourceKinds,
            method : {"hillshade"}, options : {OptionKeys}, filter_size : {0},
            has_nodata : {TRUE}, out : {"new"}] :
        /\ Len(Iterables(c)) <= MaxTiles
        /\ (c.num_threads = 1 \/ Len(Iterables(c)) <= MaxPoolTiles)}

\* One raster, run with every method name, option dictionary and state of
\* the files.
SetupConfigs ==
    [rows : {MaxDim}, cols : {MaxDim}, chunk_size : {MaxChunk - 1},
     overlap : 0 .. MaxOverlap, num_threads : {1},
     op : {"shift"}, src : {"holes"},
     method : MethodNames, options : OptionSets, filter_size : 0 .. MaxFilter,
     has_nodata : BOOLEAN, out : OutKinds]

Configs == GeometryConfigs \cup SetupConfigs

\* No file at out_dem_path.
NoFile ==
    [exists |-> FALSE, rows |-> 0, cols |-> 0, transform |-> "none",
     projection |-> "none", nodata_set |-> FALSE, open |-> FALSE]

\* The file the caller's out_dem_path names before the run.
OldFile(c) ==
    IF c.out = "new" THEN NoFile
    ELSE [exists |-> TRUE, rows |-> c.rows, cols |-> c.cols,
          transform |-> IF c.out = "source" THEN "source transform" ELSE "old transform",
          projection |-> IF c.out = "source" THEN "source projection" ELSE "old projection",
          nodata_set |-> IF c.out = "source" THEN c.has_nodata ELSE FALSE,
          open |-> FALSE]

\* The cells of the source file.
SourceCells(c) == [q \in Cells(c.rows, c.cols) |-> SourceCell(c, q[1], q[2])]

\* The cells of the file at out_dem_path before the run.
OldCells(c) ==
    IF c.out = "new" THEN <<>>
    ELSE IF c.out = "source" THEN SourceCells(c)
    ELSE [q \in Cells(c.rows, c.cols) |-> 0]

\* A pool process between two tasks. new_data is the array as the method
\* returned it, before the NoData reset that works on a view of it.
IdleWorker ==
    [pc |-> "idle", ch |-> 0,
     read_array |-> NoArray, super_array |-> NoArray,
     new_data |-> NoArray, temp_array |-> NoArray]

\* mdenoise is not being called.
MdIdle == [pc |-> "off"]

Init ==
    /\ cfg \in Configs
    /\ state = "NotStarted"
    /\ error = "none"
    /\ io = [opened |-> FALSE, created |-> 0]
    /\ source = SourceCells(cfg)
    /\ tfile = OldFile(cfg)
    /\ iterables = <<>>
    /\ next = 1
    /\ lock = 0
    /\ workers = <<>>
    /\ target = OldCells(cfg)
    /\ writeCount = <<>>
    /\ success = TRUE
    /\ printed = {}
    /\ done = {}
    /\ failed = {}
    /\ events = <<>>
    /\ md = MdIdle

poolVars == <<iterables, next, lock, workers, success>>
fileVars == <<io, source, tfile, target, writeCount>>
histVars == <<printed, done, failed, events>>

\* ParallelRCP raises.
Raise(exc) ==
    /\ state' = "Failed"
    /\ error' = exc

\* Method name and option checks.
Validate ==
    /\ state = "NotStarted"
    /\ IF ValidationError(cfg) = "none"
       THEN state' = "Validated" /\ UNCHANGED error
       ELSE Raise(ValidationError(cfg))
    /\ UNCHANGED <<cfg, poolVars, fileVars, histVars, md>>

\* The NoData check never fires.
NoDataNeverMissing(c) == FALSE

\* s_band.GetNoDataValue() is None
NoDataMissing(c) == ~c.has_nodata

\* Get source file metadata: the source is opened read-only, its size,
\* georeference and NoData value are read, and it is closed.
OpenSource ==
    /\ state = "Validated"
    /\ io' = [io EXCEPT !.opened = TRUE]
    /\ IF NoDataMissing(cfg)
       THEN Raise("Exception")
       ELSE state' = "SourceRead" /\ UNCHANGED error
    /\ UNCHANGED <<cfg, poolVars, source, tfile, target, writeCount, histVars, md>>

\* The existence check never fires.
OutputNeverExists(c) == FALSE

\* os.path.exists(out_dem_path)
OutputExists(c) == c.out # "new"

\* A target whose handle is never closed.
CreatedTargetOpen(c) ==
    [exists |-> TRUE, rows |-> c.rows, cols |-> c.cols,
     transform |-> "source transform", projection |-> "source projection",
     nodata_set |-> TRUE, open |-> TRUE]

\* Every write lands in the file at in_dem_path.
TargetIsSourceAlways(c) == TRUE

\* out_dem_path (target_dem_path of the chunks) names the file at in_dem_path.
TargetIsSource(c) == c.out = "source"

\* The target as driver.Create, SetGeoTransform, SetProjection and
\* SetNoDataValue leave it, the handle closed.
CreatedTarget(c) ==
    [exists |-> TRUE, rows |-> c.rows, cols |-> c.cols,
     transform |-> "source transform", projection |-> "source projection",
     nodata_set |-> TRUE, open |-> FALSE]

\* The cells of a created raster: each reads as NoData until it is written.
CreatedCells(c) == [q \in Cells(c.rows, c.cols) |-> s_nodata]

\* Set up the target file: refuse an existing path, else create the file
\* and close it. A file created at in_dem_path replaces the source.
CreateTarget ==
    /\ state = "SourceRead"
    /\ IF OutputExists(cfg)
       THEN /\ Raise("IOError")
            /\ UNCHANGED fileVars
       ELSE /\ state' = "TargetCreated"
            /\ UNCHANGED error
            /\ tfile' = CreatedTarget(cfg)
            /\ target' = CreatedCells(cfg)
            /\ source' = IF TargetIsSource(cfg) THEN CreatedCells(cfg) ELSE source
            /\ writeCount' = [q \in Cells(cfg.rows, cfg.cols) |-> 0]
            /\ io' = [io EXCEPT !.created = @ + 1]
    /\ UNCHANGED <<cfg, poolVars, histVars, md>>

\* Nothing has been done for a chunk yet.
NoEvents == [read |-> 0, processed |-> 0, written |-> 0]

\* ParallelRCP from the target's creation up to pool.map: the chunk list is
\* built and, when the raster exceeds chunk_size in both directions, the
\* lock and the pool of num_threads processes are created.
Start ==
    /\ state = "TargetCreated"
    /\ state' = "Running"
    /\ iterables' = Iterables(cfg)
    /\ workers' = IF cfg.rows > cfg.chunk_size /\ cfg.cols > cfg.chunk_size
                  THEN [w \in 1 .. cfg.num_threads |-> IdleWorker]
                  ELSE <<>>
    /\ events' = [i \in DOMAIN Iterables(cfg) |-> NoEvents]
    /\ UNCHANGED <<cfg, error, next, lock, success, fileVars, printed, done,
                   failed, md>>

\* A progress line that counts from zero.
ProgressMessageFromZero(ch, total_chunks) ==
    [tile |-> ch.tile, progress |-> ch.progress - 1, total |-> total_chunks]

\* The progress line ProcessSuperArray prints for chunk ch.
ProgressMessage(ch, total_chunks) ==
    [tile |-> ch.tile, progress |-> ch.progress, total |-> total_chunks]

\* A pool process takes the next chunk (chunksize=1) and enters
\* ProcessSuperArray: unpacking, super array calculations, progress print.
TakeTask(w) ==
    /\ state = "Running"
    /\ workers[w].pc = "idle"
    /\ next <= Len(iterables)
    /\ workers' = [workers EXCEPT ![w].pc = "wait_read", ![w].ch = next]
    /\ next' = next + 1
    /\ printed' = printed \cup {ProgressMessage(iterables[next], Len(iterables))}
    /\ UNCHANGED <<cfg, state, error, iterables, lock, success, fileVars,
                   done, failed, events, md>>

\* "with lock:" before the read.
AcquireRead(w) ==
    /\ workers[w].pc = "wait_read"
    /\ LockFree(lock)
    /\ lock' = w
    /\ workers' = [workers EXCEPT ![w].pc = "reading"]
    /\ UNCHANGED <<cfg, state, error, iterables, next, success, fileVars,
                   histVars, md>>

\* A task that raised: the pool records the failure and the process goes on
\* to the next task.
TaskRaised(w) == [workers EXCEPT ![w] = IdleWorker]

\* The body of the first "with lock:" block: open the source, ReadAsArray,
\* close; the lock is released on the way out.
ReadRelease(w) ==
    LET g == SuperArrayCalc(cfg, iterables[workers[w].ch])
    IN  /\ workers[w].pc = "reading"
        /\ IF ReadWindowOk(cfg, g.read_x_off, g.read_y_off,
                           g.read_x_size, g.read_y_size)
           THEN /\ lock' = Released(lock)
                /\ workers' = [workers EXCEPT
                        ![w].pc = "computing",
                        ![w].read_array = ReadAsArray(cfg, g.read_x_off, g.read_y_off,
                                                      g.read_x_size, g.read_y_size)]
                /\ events' = [events EXCEPT ![workers[w].ch].read = @ + 1]
                /\ UNCHANGED <<success, failed>>
           ELSE /\ lock' = ReleasedOnRaise(lock)
                /\ workers' = TaskRaised(w)
                /\ success' = FALSE
                /\ failed' = failed \cup {workers[w].ch}
                /\ UNCHANGED events
        /\ UNCHANGED <<cfg, state, error, iterables, next, fileVars,
                       printed, done, md>>

\* Between the two locked blocks: fill super_array with NoData, copy
\* read_array in, run the method, strip the overlap, reset NoData.
Compute(w) ==
    LET g == SuperArrayCalc(cfg, iterables[workers[w].ch])
        empty == NewSuperArray(g)
    IN  /\ workers[w].pc = "computing"
        /\ IF PasteOk(empty, g, workers[w].read_array) /\ DispatchError(cfg) = "none"
           THEN /\ \E super_array \in {Paste(empty, g, workers[w].read_array)} :
                   \E new_data \in {Operation(cfg.op, super_array)} :
                      workers' = [workers EXCEPT
                          ![w].pc = "wait_write",
                          ![w].super_array = super_array,
                          ![w].new_data = new_data,
                          ![w].temp_array = TempArray(new_data, super_array, F2(cfg))]
                /\ events' = [events EXCEPT ![workers[w].ch].processed = @ + 1]
                /\ UNCHANGED <<success, failed>>
           ELSE /\ workers' = TaskRaised(w)
                /\ success' = FALSE
                /\ failed' = failed \cup {workers[w].ch}
                /\ UNCHANGED events
        /\ UNCHANGED <<cfg, state, error, iterables, next, lock, fileVars,
                       printed, done, md>>

\* "with lock:" before the write.
AcquireWrite(w) ==
    /\ workers[w].pc = "wait_write"
    /\ LockFree(lock)
    /\ lock' = w
    /\ workers' = [workers EXCEPT ![w].pc = "writing"]
    /\ UNCHANGED <<cfg, state, error, iterables, next, success, fileVars,
                   histVars, md>>

\* The body of the second "with lock:" block: open the target, WriteArray,
\* close; the lock is released on the way out and the task returns.
WriteRelease(w) ==
    LET ch == iterables[workers[w].ch]
        at == WriteOffset(ch, SuperArrayCalc(cfg, ch))
        temp_array == workers[w].temp_array
    IN  /\ workers[w].pc = "writing"
        /\ workers' = TaskRaised(w)
        /\ IF WriteOk(cfg, temp_array, at.x, at.y)
           THEN /\ lock' = Released(lock)
                /\ target' = WriteArray(target, temp_array, at.x, at.y)
                /\ source' = IF TargetIsSource(cfg) THEN target' ELSE source
                /\ writeCount' =
                      [q \in DOMAIN writeCount |->
                          IF q \in WriteCells(temp_array, at.x, at.y)
                          THEN writeCount[q] + 1 ELSE writeCount[q]]
                /\ done' = done \cup {workers[w].ch}
                /\ events' = [events EXCEPT ![workers[w].ch].written = @ + 1]
                /\ UNCHANGED <<success, failed>>
           ELSE /\ lock' = ReleasedOnRaise(lock)
                /\ success' = FALSE
                /\ failed' = failed \cup {workers[w].ch}
                /\ UNCHANGED <<source, target, writeCount, done, events>>
        /\ UNCHANGED <<cfg, state, error, io, tfile, iterables, next, printed, md>>

\* pool.map raises whatever the tasks did.
MapOutcomeFailed(ok) == "Failed"

\* What pool.map makes of the tasks' outcomes: it returns, or raises the
\* first failure.
MapOutcome(ok) == IF ok THEN "Completed" ELSE "Failed"

\* pool.map returns once every task is done (it raises the first failure
\* only then), or the else path ("pass") was taken; ParallelRCP returns.
Finish ==
    /\ state = "Running"
    /\ next > Len(iterables)
    /\ \A w \in DOMAIN workers : workers[w].pc = "idle"
    /\ state' = MapOutcome(success)
    /\ error' = IF success THEN "none" ELSE "task"
    /\ UNCHANGED <<cfg, poolVars, fileVars, histVars, md>>

Next ==
    \/ Validate
    \/ OpenSource
    \/ CreateTarget
    \/ Start
    \/ \E w \in DOMAIN workers : TakeTask(w)
    \/ \E w \in DOMAIN workers : AcquireRead(w)
    \/ \E w \in DOMAIN workers : ReadRelease(w)
    \/ \E w \in DOMAIN workers : Compute(w)
    \/ \E w \in DOMAIN workers : AcquireWrite(w)
    \/ \E w \in DOMAIN workers : WriteRelease(w)
    \/ Finish

Spec == Init /\ [][Next]_vars

\* One step of pool process w.
WorkerStep(w) ==
    /\ w \in DOMAIN workers
    /\ \/ TakeTask(w)
       \/ AcquireRead(w)
       \/ ReadRelease(w)
       \/ Compute(w)
       \/ AcquireWrite(w)
       \/ WriteRelease(w)

\* One step of the process that called ParallelRCP.
MainStep == Validate \/ OpenSource \/ CreateTarget \/ Start \/ Finish

\* The runs followed to their end under fair scheduling: square rasters
\* with one chunk size, on every overlap and pool size.
FairInit ==
    /\ Init
    /\ cfg \in GeometryConfigs
    /\ cfg.rows = cfg.cols
    /\ cfg.chunk_size = MaxChunk - 1
    /\ cfg.src = "holes"
    /\ cfg.op = "shift"

\* The operating system schedules every process that can run: the calling
\* process and each pool process keep taking steps while they have one.
FairSpec ==
    /\ FairInit
    /\ [][Next]_vars
    /\ WF_vars(MainStep)
    /\ \A w \in 1 .. MaxThreads : WF_vars(WorkerStep(w))

\* ------------------------------------------------------------- mdenoise
\* One call of mdenoise(in_array, t, n, v, tile), step by step. md.tmp is
\* the set of this call's files in the temporary directory.
MdValues == {s_nodata - 1, s_nodata, s_nodata + 1}

\* The arrays mdenoise is called with: every array of at most MdMaxCells
\* cells over MdValues.
MdArrays ==
    UNION {{[h |-> s[1], w |-> s[2], d |-> f] : f \in [Cells(s[1], s[2]) -> MdValues]} :
              s \in {s \in (1 .. MdMaxCells) \X (1 .. MdMaxCells) :
                         s[1] * s[2] <= MdMaxCells}}

RECURSIVE SumOver(_, _)
SumOver(d, S) ==
    IF S = {} THEN 0
    ELSE LET q == CHOOSE q \in S : TRUE IN d[q] + SumOver(d, S \ {q})

\* in_array.mean() == s_nodata, the mean being the sum over the cell count
MeanIsNoData(a) == SumOver(a.d, DOMAIN a.d) = s_nodata * (a.h * a.w)

\* The temporary files' names: told apart by the tile's name if one is
\* given, else by the process id.
TempPath(kind, tile) ==
    [name |-> kind, id |-> IF tile # "" THEN tile ELSE "pid"]

\* What the external program may do: write its output and exit 0, exit 0
\* without output, write a file GDAL cannot open, exit non-zero before or
\* after writing output, or not be found at mdenoise_path.
ExeOutcomes == {"ok", "no_output", "bad_output", "failed", "failed_partial", "not_found"}

\* The outcomes that leave a file at the target path.
ExeWrites == {"ok", "bad_output", "failed_partial"}

\* The outcomes on which subprocess.check_output raises.
ExeRaises == {"failed", "failed_partial", "not_found"}

MdCalls ==
    [pc : {"called"}, in_array : MdArrays, tile : {"", "0-0"},
     tmp : {{}}, readable : {FALSE}, result : {"none"}]

\* The all-NoData test, and for other arrays the paths and WriteASC.
MdWrite ==
    /\ md.pc = "called"
    /\ IF MeanIsNoData(md.in_array)
       THEN md' = [md EXCEPT !.pc = "returned", !.result = "in_array"]
       ELSE md' = [md EXCEPT !.pc = "written",
                             !.tmp = @ \cup {TempPath("mesh_source", md.tile)}]

\* subprocess.check_output(args): raises when the program cannot be run or
\* exits non-zero.
MdRun ==
    /\ md.pc = "written"
    /\ \E exe \in ExeOutcomes :
          md' = [md EXCEPT
                    !.pc = IF exe \in ExeRaises THEN "raised" ELSE "ran",
                    !.tmp = IF exe \in ExeWrites
                            THEN @ \cup {TempPath("mesh_target", md.tile)}
                            ELSE @,
                    !.readable = (exe = "ok")]

\* gdal.Open(temp_t_path) and ReadAsArray; gdal.Open raises (UseExceptions)
\* when the file is missing or is no raster.
MdRead ==
    /\ md.pc = "ran"
    /\ IF TempPath("mesh_target", md.tile) \in md.tmp /\ md.readable
       THEN md' = [md EXCEPT !.pc = "read", !.result = "mdenoised_array"]
       ELSE md' = [md EXCEPT !.pc = "raised"]

\* os.remove(temp_s_path); os.remove(temp_t_path) under
\* contextlib.suppress(FileNotFoundError): a missing source file ends the
\* block before the target file is removed.
Removed(tmp, tile) ==
    IF TempPath("mesh_source", tile) \in tmp
    THEN tmp \ {TempPath("mesh_source", tile), TempPath("mesh_target", tile)}
    ELSE tmp

\* "Clean up after ourselves" and return.
MdCleanup ==
    /\ md.pc = "read"
    /\ md' = [md EXCEPT !.pc = "returned", !.tmp = Removed(@, md.tile)]

mainVars == <<cfg, state, error, io, source, tfile, iterables, next, lock,
              workers, target, writeCount, success, printed, done, failed,
              events>>

\* A pool process of a running mdenoise job calls mdenoise on a super array.
MdInit ==
    /\ cfg \in {c \in SetupConfigs :
                   /\ c.method = "mdenoise" /\ c.options = OptionKeys
                   /\ c.has_nodata /\ c.out = "new"
                   /\ c.overlap = 0 /\ c.filter_size = 0}
    /\ state = "Running"
    /\ error = "none"
    /\ io = [opened |-> TRUE, created |-> 1]
    /\ source = SourceCells(cfg)
    /\ tfile = CreatedTarget(cfg)
    /\ iterables = Iterables(cfg)
    /\ next = 1
    /\ lock = 0
    /\ workers = [w \in 1 .. cfg.num_threads |-> IdleWorker]
    /\ target = CreatedCells(cfg)
    /\ writeCount = [q \in Cells(cfg.rows, cfg.cols) |-> 0]
    /\ success = TRUE
    /\ printed = {}
    /\ done = {}
    /\ failed = {}
    /\ events = [i \in DOMAIN iterables |-> NoEvents]
    /\ md \in MdCalls

MdNext ==
    \/ MdWrite /\ UNCHANGED mainVars
    \/ MdRun /\ UNCHANGED mainVars
    \/ MdRead /\ UNCHANGED mainVars
    \/ MdCleanup /\ UNCHANGED mainVars

SpecMdenoise == MdInit /\ [][MdNext]_vars

\* ============================================================ properties
Raster == Cells(cfg.rows, cfg.cols)

\* ParallelRCP has built its chunk list (and run its pool, if any).
Partitioned == state = "Running" \/ state = "Completed" \/ error = "task"

\* Raster cell q = <<y, x>> lies in the half-open rectangle of chunk ch.
InChunk(ch, q) ==
    /\ ch.y_start <= q[1] /\ q[1] < ch.y_end
    /\ ch.x_start <= q[2] /\ q[2] < ch.x_end

\* Workers whose super_array has been populated and is still held.
Populated == {w \in DOMAIN workers : workers[w].pc \in {"wait_write", "writing"}}

ChunkOf(w) == iterables[workers[w].ch]

\* Raster coordinate of cell p of the super array of chunk ch.
RasterCoord(ch, p) == <<ch.y_start - F2(cfg) + p[1], ch.x_start - F2(cfg) + p[2]>>

\* C1: once ParallelRCP has enumerated its chunks, every chunk is a non-empty
\* half-open rectangle inside the raster and every raster cell lies in
\* exactly one chunk (pairwise disjoint, union the whole raster), for any
\* rows, cols and chunk_size > 0.
C1_PartitionCoverage ==
    Partitioned =>
        /\ \A k \in DOMAIN iterables :
              /\ 0 <= iterables[k].x_start /\ iterables[k].x_start < iterables[k].x_end
              /\ iterables[k].x_end <= cfg.cols
              /\ 0 <= iterables[k].y_start /\ iterables[k].y_start < iterables[k].y_end
              /\ iterables[k].y_end <= cfg.rows
        /\ \A q \in Raster :
              Cardinality({k \in DOMAIN iterables : InChunk(iterables[k], q)}) = 1

\* C2: when ParallelRCP has returned normally, every cell of the target has
\* been covered by exactly one WriteArray call, whatever the pool size.
C2_WriteCoverage ==
    state = "Completed" => \A q \in Raster : writeCount[q] = 1

\* The run of the same chunks strictly one after the other in list order:
\* chunk ch read, processed and written on top of tgt.
ChunkInOrder(c, tgt, ch) ==
    LET g == SuperArrayCalc(c, ch)
        read_array == ReadAsArray(c, g.read_x_off, g.read_y_off,
                                  g.read_x_size, g.read_y_size)
        empty == NewSuperArray(g)
        super_array == Paste(empty, g, read_array)
        temp_array == TempArray(Operation(c.op, super_array), super_array, F2(c))
        at == WriteOffset(ch, g)
    IN  IF /\ ReadWindowOk(c, g.read_x_off, g.read_y_off, g.read_x_size, g.read_y_size)
           /\ PasteOk(empty, g, read_array)
           /\ WriteOk(c, temp_array, at.x, at.y)
        THEN WriteArray(tgt, temp_array, at.x, at.y)
        ELSE tgt

RECURSIVE RunInOrder(_, _, _, _)
RunInOrder(c, its, k, tgt) ==
    IF k > Len(its) THEN tgt
    ELSE RunInOrder(c, its, k + 1, ChunkInOrder(c, tgt, its[k]))

\* C3: whatever the pool size and the interleaving of the workers' read,
\* compute and write steps, the run ends with the target contents that the
\* chunks processed one after the other in list order produce.
C3_OrderIndependent ==
    (Partitioned /\ state \in {"Completed", "Failed"}) =>
        target = RunInOrder(cfg, iterables, 1,
                            [q \in Raster |-> s_nodata])

\* C3 witness: a run of a pool of several processes has ended with every
\* cell written.
C3_Witness ==
    /\ state = "Completed"
    /\ cfg.num_threads > 1
    /\ \A q \in Raster : writeCount[q] = 1

\* C4: in every populated super array, a cell whose raster coordinate is
\* inside the raster holds the source value of that raster cell, and a cell
\* whose raster coordinate is outside the raster holds NoData.
C4_PasteAligned ==
    \A w \in Populated :
        \A p \in DOMAIN workers[w].super_array.d :
            LET q == RasterCoord(ChunkOf(w), p)
            IN  workers[w].super_array.d[p] =
                    IF q \in Raster THEN SourceCell(cfg, q[1], q[2]) ELSE s_nodata

\* C5: in the populated super array of the chunk at the top-left corner
\* (x_start = 0, y_start = 0), the first f2 rows and the first f2 columns
\* are NoData and every other cell holds the source value of its raster cell.
C5_TopLeftClamp ==
    \A w \in Populated :
        (ChunkOf(w).x_start = 0 /\ ChunkOf(w).y_start = 0) =>
            \A p \in DOMAIN workers[w].super_array.d :
                LET q == RasterCoord(ChunkOf(w), p)
                IN  IF p[1] < F2(cfg) \/ p[2] < F2(cfg)
                    THEN workers[w].super_array.d[p] = s_nodata
                    ELSE /\ q \in Raster
                         /\ workers[w].super_array.d[p] = SourceCell(cfg, q[1], q[2])

\* C5 witness: the top-left chunk has been populated with a halo.
C5_Witness ==
    \E w \in Populated :
        /\ ChunkOf(w).x_start = 0 /\ ChunkOf(w).y_start = 0
        /\ F2(cfg) > 0

\* A chunk whose four sides are at least f2 away from the raster edges.
Interior(ch) ==
    /\ ch.x_start >= F2(cfg) /\ ch.x_end + F2(cfg) <= cfg.cols
    /\ ch.y_start >= F2(cfg) /\ ch.y_end + F2(cfg) <= cfg.rows

\* C6: for an interior chunk the read window is the nominal padded window
\* (x_start - f2, y_start - f2, width + 2*f2, height + 2*f2), the array read
\* has the shape of the super array and the slice it is copied into is the
\* whole super array.
C6_InteriorNoClamp ==
    \A w \in DOMAIN workers :
        (workers[w].pc = "computing" /\ Interior(ChunkOf(w))) =>
            LET ch == ChunkOf(w)
                g == SuperArrayCalc(cfg, ch)
            IN  /\ g.read_x_off = ch.x_start - F2(cfg)
                /\ g.read_y_off = ch.y_start - F2(cfg)
                /\ g.read_x_size = ch.x_end - ch.x_start + 2 * F2(cfg)
                /\ g.read_y_size = ch.y_end - ch.y_start + 2 * F2(cfg)
                /\ workers[w].read_array.h = g.y_size
                /\ workers[w].read_array.w = g.x_size
                /\ PyIndex(g.sa_x_start, g.x_size) = 0
                /\ PyIndex(g.sa_x_end, g.x_size) = g.x_size
                /\ PyIndex(g.sa_y_start, g.y_size) = 0
                /\ PyIndex(g.sa_y_end, g.y_size) = g.y_size

\* C6 witness: the window of an interior chunk has been read with a halo.
C6_Witness ==
    \E w \in DOMAIN workers :
        /\ workers[w].pc = "computing"
        /\ Interior(ChunkOf(w))
        /\ F2(cfg) > 0

\* C7: the array handed to WriteArray holds NoData at every cell whose input
\* cell (super_array without the overlap) is NoData and the value the method
\* returned at every other cell.
C7_MaskRestored ==
    \A w \in Populated :
        \A p \in DOMAIN workers[w].temp_array.d :
            LET in == <<p[1] + F2(cfg), p[2] + F2(cfg)>>
            IN  workers[w].temp_array.d[p] =
                    IF workers[w].super_array.d[in] = s_nodata
                    THEN s_nodata
                    ELSE workers[w].new_data.d[in]

\* C7 witness: a chunk is being written in which the method returned a finite
\* value for a NoData input cell, and a data cell next to it.
C7_Witness ==
    \E w \in Populated :
        /\ workers[w].pc = "writing"
        /\ \E p \in DOMAIN workers[w].temp_array.d :
              LET in == <<p[1] + F2(cfg), p[2] + F2(cfg)>>
              IN  /\ workers[w].super_array.d[in] = s_nodata
                  /\ workers[w].new_data.d[in] # s_nodata
        /\ \E p \in DOMAIN workers[w].temp_array.d :
              workers[w].super_array.d[<<p[1] + F2(cfg), p[2] + F2(cfg)>>] # s_nodata

\* C8: a raster with rows <= chunk_size and cols <= chunk_size is processed
\* as one chunk spanning the whole raster: when ParallelRCP has returned,
\* there was exactly that chunk and every target cell was written once.
C8_SingleTileProcessed ==
    (/\ state = "Completed"
     /\ cfg.rows <= cfg.chunk_size
     /\ cfg.cols <= cfg.chunk_size) =>
        /\ Len(iterables) = 1
        /\ \A k \in DOMAIN iterables :
              /\ iterables[k].x_start = 0 /\ iterables[k].x_end = cfg.cols
              /\ iterables[k].y_start = 0 /\ iterables[k].y_end = cfg.rows
        /\ \A q \in Raster : writeCount[q] > 0

\* C9: at most one worker is inside a locked block (the source read or the
\* target write) at any time.
C9_MutualExclusion ==
    Cardinality({w \in DOMAIN workers : workers[w].pc \in {"reading", "writing"}}) <= 1

\* C9 witness: a worker is inside a locked block while another one waits
\* for the lock.
C9_Witness ==
    \E w1, w2 \in DOMAIN workers :
        /\ workers[w1].pc \in {"reading", "writing"}
        /\ workers[w2].pc \in {"wait_read", "wait_write"}

\* C10: the lock is held only by a worker that is inside its read or its
\* write block; in particular no worker holds it while it runs the method.
C10_LockOnlyDuringIO ==
    /\ lock # 0 => (lock \in DOMAIN workers /\ workers[lock].pc \in {"reading", "writing"})
    /\ \A w \in DOMAIN workers :
          workers[w].pc \in {"idle", "wait_read", "computing", "wait_write"} => lock # w

\* C10 witness: a worker is inside a locked block while another one is
\* running the method.
C10_Witness ==
    \E w1, w2 \in DOMAIN workers :
        /\ workers[w1].pc = "computing"
        /\ workers[w2].pc \in {"reading", "writing"}
        /\ lock = w2

\* ------------------------------------------------------------------ C11
\* The target file has the source's dimensions, geotransform and
\* projection, has its NoData value set and its handle closed.
TargetReady ==
    /\ tfile.exists
    /\ tfile.rows = cfg.rows
    /\ tfile.cols = cfg.cols
    /\ tfile.transform = "source transform"
    /\ tfile.projection = "source projection"
    /\ tfile.nodata_set
    /\ ~tfile.open

\* The pool's processes exist, or a tile has been taken or written.
PoolStarted ==
    \/ workers # <<>>
    \/ next > 1
    \/ \E q \in DOMAIN writeCount : writeCount[q] > 0

\* C11: whenever a pool process exists or a tile has been written, the
\* target file has been created exactly once, with the source's dimensions,
\* geotransform and projection and the NoData value set, and its handle
\* has been closed.
C11_TargetBeforeWorkers ==
    PoolStarted => (TargetReady /\ io.created = 1)

\* A tile has been written while the pool is running.
C11_Witness ==
    /\ state = "Running"
    /\ workers # <<>>
    /\ \E q \in DOMAIN writeCount : writeCount[q] > 0

\* ------------------------------------------------------------------ C12
\* The request names a method outside the closed set, or lacks an option
\* its method requires.
BadRequest ==
    LET required == [m \in {"blur_gauss", "mdenoise", "clahe", "TPI",
                            "blur_mean", "hillshade", "skymodel"} |->
                        IF m \in {"blur_gauss", "TPI", "blur_mean"} THEN {"filter_size"}
                        ELSE IF m = "mdenoise" THEN {"t", "n", "v"}
                        ELSE IF m = "clahe" THEN {"filter_size", "clip_limit"}
                        ELSE IF m = "hillshade" THEN {"alt", "az"}
                        ELSE {"lum_file"}]
    IN  \/ cfg.method \notin DOMAIN required
        \/ ~(required[cfg.method] \subseteq cfg.options)

\* C12: a run whose method name is not one of the seven, or that lacks a
\* required option of its method, never opens the source, never creates a
\* target and never dispatches a tile; once it has left its first step it
\* has raised ValueError or NotImplementedError.
C12_BadRequestRejected ==
    BadRequest =>
        /\ ~io.opened
        /\ io.created = 0
        /\ tfile = OldFile(cfg)
        /\ ~PoolStarted
        /\ iterables = <<>>
        /\ (state # "NotStarted" =>
               (state = "Failed" /\ error \in {"ValueError", "NotImplementedError"}))

\* blur_gauss without filter_size was rejected.
C12_Witness ==
    /\ state = "Failed"
    /\ error = "ValueError"
    /\ cfg.method = "blur_gauss"
    /\ "filter_size" \notin cfg.options

\* ------------------------------------------------------------------ C13
\* C13: a run on a source without a NoData value creates no target, leaves
\* the file at the target path as it was, starts no pool and processes no
\* tile; once the source's metadata has been read the run has failed with
\* the "No NoData value set" exception, and it never completes.
C13_NoDataAborts ==
    ~cfg.has_nodata =>
        /\ io.created = 0
        /\ tfile = OldFile(cfg)
        /\ target = OldCells(cfg)
        /\ ~PoolStarted
        /\ done = {}
        /\ state \in {"NotStarted", "Validated", "Failed"}
        /\ (io.opened => (state = "Failed" /\ error = "Exception"))

\* A valid request on a source without NoData value was aborted.
C13_Witness ==
    /\ ~cfg.has_nodata
    /\ io.opened
    /\ state = "Failed"
    /\ error = "Exception"

\* ------------------------------------------------------------------ C14
\* C14: a run whose target path already names a file never gets past the
\* target set-up: the file keeps its metadata and its cells, no target is
\* created, no pool is started and no tile is processed, and once the set-up
\* was attempted the run has failed. No run creates a target twice.
C14_ExistingTargetKept ==
    /\ io.created <= 1
    /\ cfg.out # "new" =>
          /\ tfile = OldFile(cfg)
          /\ target = OldCells(cfg)
          /\ io.created = 0
          /\ ~PoolStarted
          /\ done = {}
          /\ state \in {"NotStarted", "Validated", "SourceRead", "Failed"}

\* A valid request on a good source was refused for its existing target.
C14_Witness ==
    /\ cfg.out = "exists"
    /\ state = "Failed"
    /\ error = "IOError"
    /\ target = [q \in Raster |-> 0]

\* ------------------------------------------------------------------ C15
\* The overlap the run is to use: the larger of the caller's overlap and
\* twice the filter size for the four filter methods, else the caller's.
ExpectedOverlap ==
    IF cfg.method \in {"blur_gauss", "blur_mean", "clahe", "TPI"}
    THEN Max(cfg.overlap, 2 * cfg.filter_size)
    ELSE cfg.overlap

\* C15: the super array every process builds for its tile extends the tile
\* by a halo of 2 * ExpectedOverlap cells on each side, whatever tile it is,
\* and ExpectedOverlap is never below the caller's overlap.
C15_HaloFromOverlap ==
    /\ ExpectedOverlap >= cfg.overlap
    /\ \A w \in Populated :
          LET ch == ChunkOf(w)
              halo == 2 * ExpectedOverlap
          IN  /\ workers[w].super_array.h = (ch.y_end - ch.y_start) + 2 * halo
              /\ workers[w].super_array.w = (ch.x_end - ch.x_start) + 2 * halo
              /\ workers[w].new_data.h = workers[w].super_array.h
              /\ workers[w].new_data.w = workers[w].super_array.w

\* A filter method whose filter size raised the caller's overlap has built
\* a super array.
C15_Witness ==
    /\ cfg.method \in {"blur_gauss", "blur_mean", "clahe", "TPI"}
    /\ 2 * cfg.filter_size > cfg.overlap
    /\ Populated # {}

\* ------------------------------------------------------------------ C16
\* C16: once a tile's task has raised, no further tile is taken from the
\* chunk list and no cell of the target is written any more, the failed
\* tile is never completed by a retry, and the run can only end Failed.
C16_FailureStopsRun ==
    [][failed # {} =>
          /\ next' = next
          /\ writeCount' = writeCount
          /\ failed' \cap done' = {}
          /\ (state' \in {"Completed", "Failed"} => state' = "Failed")]_vars

C18_TempFilesRemoved ==
    md.pc \in {"returned", "raised"} => md.tmp = {}

\* ------------------------------------------------------------------ C19
\* C19: at every point of every run the cells of the source file are the
\* ones it had when ParallelRCP was called, also when the caller names the
\* source file as the target.
C19_SourceUnchanged ==
    source = [q \in Raster |-> SourceCell(cfg, q[1], q[2])]

\* A run whose target path is its source path has ended.
C19_Witness ==
    /\ cfg.out = "source"
    /\ io.opened
    /\ state = "Failed"
    /\ error = "IOError"

\* ------------------------------------------------------------------ C20
\* C20: whatever the halo width f2 >= 0, zero included, the array a process
\* holds after trimming f2 rows and columns from each side of the method's
\* output has exactly its tile's extent, (y_end - y_start) rows by
\* (x_end - x_start) columns.
C20_TrimToNativeExtent ==
    \A w \in Populated :
        /\ workers[w].temp_array.h = ChunkOf(w).y_end - ChunkOf(w).y_start
        /\ workers[w].temp_array.w = ChunkOf(w).x_end - ChunkOf(w).x_start

\* ------------------------------------------------------------------ C21
\* C21: the read window a process has resolved for its tile, and passes to
\* ReadAsArray, lies inside the raster on both axes.
C21_ReadWindowInside ==
    \A w \in DOMAIN workers :
        workers[w].pc \in {"wait_read", "reading"} =>
            LET g == SuperArrayCalc(cfg, ChunkOf(w))
            IN  /\ 0 <= g.read_x_off
                /\ g.read_x_off + g.read_x_size <= cfg.cols
                /\ 0 <= g.read_y_off
                /\ g.read_y_off + g.read_y_size <= cfg.rows

\* ------------------------------------------------------------------ C22
\* C22: on each axis the padded window of the tile a process works on is
\* never both under the raster (offset < 0) and over it (offset + size >
\* dimension).
C22_UnderOrOverNotBoth ==
    \A w \in DOMAIN workers :
        workers[w].pc # "idle" =>
            LET g == SuperArrayCalc(cfg, ChunkOf(w))
            IN  /\ ~(g.x_off < 0 /\ g.x_off + g.x_size > cfg.cols)
                /\ ~(g.y_off < 0 /\ g.y_off + g.y_size > cfg.rows)

\* ------------------------------------------------------------------ C23
\* Chunk i has gone through the pipeline once: one read, one run of the
\* method, one write.
OnceThrough(i) == events[i] = [read |-> 1, processed |-> 1, written |-> 1]

\* C23: under fair scheduling, a run that has started its pool on a raster
\* larger than chunk_size in both directions eventually completes unless a
\* tile fails; and whenever ParallelRCP has returned normally, every tile of
\* the chunk list has been read once, processed once and written once.
C23_CompletesAfterAllTiles ==
    /\ (state = "Running" /\ iterables # <<>>) ~> (state = "Completed" \/ failed # {})
    /\ [](state = "Completed" => \A i \in DOMAIN iterables : OnceThrough(i))

\* A pool of two processes has completed four tiles.
C23_Witness ==
    /\ state = "Completed"
    /\ Len(iterables) = 4
    /\ cfg.num_threads = 2
    /\ \A i \in DOMAIN iterables : OnceThrough(i)

\* ------------------------------------------------------------------ C24
\* Every cell of the array is the NoData value.
AllNoData(a) == \A p \in DOMAIN a.d : a.d[p] = s_nodata

\* C24: once mdenoise is past its first test, it has taken the short way
\* (input returned as it is, no temporary file written, the external
\* program not run) exactly when every cell of its input is NoData.
C24_ShortCircuitIffAllNoData ==
    md.pc \notin {"off", "called"} =>
        /\ (md.result = "in_array" /\ md.pc = "returned") <=> AllNoData(md.in_array)
        /\ md.result = "in_array" => md.tmp = {}

\* ------------------------------------------------------------------ C25
\* Process w is inside a locked block / waits to enter one.
InSection(w) == w \in DOMAIN workers /\ workers[w].pc \in {"reading", "writing"}
Waiting(w) == w \in DOMAIN workers /\ workers[w].pc \in {"wait_read", "wait_write"}

\* C25: a process that leaves its read or write block, by finishing it or
\* because the read or the write raised, leaves the lock free; and whenever
\* a process waits for the lock, the lock is free or is held by a process
\* that is inside a locked block (and gives it up with its next step), never
\* by one that has finished or failed: no process waits forever.
C25_LockAlwaysReleased ==
    /\ [][\A w \in 1 .. MaxThreads :
             (InSection(w) /\ ~InSection(w)') => lock' = 0]_vars
    /\ [](\A w \in 1 .. MaxThreads :
             Waiting(w) => (lock = 0 \/ (InSection(lock) /\ lock # w)))

\* A read has raised, and afterwards a process is inside a locked block
\* while another one waits for the lock.
C25_Witness ==
    /\ \E i \in failed : events[i].read = 0
    /\ \E w1, w2 \in DOMAIN workers : InSection(w1) /\ lock = w1 /\ Waiting(w2)

\* ------------------------------------------------------------------ C26
\* Chunk i cannot go through for a reason of geometry: its read window
\* leaves the raster, the array read does not fit its place in the super
\* array, or the trimmed array does not fit the target.
GeometryFails(i) ==
    LET ch == iterables[i]
        g == SuperArrayCalc(cfg, ch)
        empty == NewSuperArray(g)
        readOk == ReadWindowOk(cfg, g.read_x_off, g.read_y_off,
                               g.read_x_size, g.read_y_size)
        read_array == ReadAsArray(cfg, g.read_x_off, g.read_y_off,
                                  g.read_x_size, g.read_y_size)
        at == WriteOffset(ch, g)
    IN  \/ ~readOk
        \/ ~PasteOk(empty, g, read_array)
        \/ ~WriteOk(cfg, StripOverlap(empty, F2(cfg)), at.x, at.y)

\* C26: a run that got as far as creating its target names one of the seven
\* methods and carries every option the dispatch reads for it (lum_lines
\* being derived from lum_file), and every tile that fails in such a run
\* fails for its geometry, none for an unknown method or a missing option.
C26_ValidatedIsDispatched ==
    /\ io.created = 1 =>
          /\ cfg.method \in {"blur_gauss", "mdenoise", "clahe", "TPI",
                             "blur_mean", "hillshade", "skymodel"}
          /\ DispatchError(cfg) = "none"
    /\ \A i \in failed : GeometryFails(i)

\* A skymodel run, whose lum_lines option is derived from lum_file, has
\* processed a tile.
C26_Witness ==
    /\ cfg.method = "skymodel"
    /\ done # {}

====
